---- MODULE Spec2Model ----
(***************************************************************************)
(* TorrentCollector of transmission-exporter                               *)
(* (cmd/transmission-exporter/torrent_collector.go).                       *)
(*                                                                         *)
(* One TorrentCollector instance is shared by the goroutines that serve    *)
(* scrapes.  Each goroutine runs Collect: it reads tc.recentlyActiveOnly   *)
(* and calls client.GetTorrents (line 142), returns on error (143-146),    *)
(* locks torrentMapLock (152), inserts the response's torrents (153-155),  *)
(* deletes the removed ids (156-158), copies the map's values to           *)
(* activeTorrents (159-161), unlocks (162), sets recentlyActiveOnly when   *)
(* the copy is not empty (164-166) and sends the metrics (168-249).        *)
(***************************************************************************)
EXTENDS Integers, Sequences, FiniteSets, TLC

\* ------------------------------------------------------------------ bounds

\* A response holds at most MaxBatch torrent records ...
MaxBatch == 2
\* ... and at most MaxRemoved removed ids.
MaxRemoved == 1

\* The goroutines that may run Collect at the same time.
Procs == {"g1", "g2"}
\* The torrent ids the daemon hands out.
IDs == {1, 2}
\* What a torrent record holds besides its id (Name stands for every field
\* of transmission.Torrent other than ID).
Names == {"a", "b"}

\* transmission.Torrent
Torrent == [ID : IDs, Name : Names]

\* No goroutine holds torrentMapLock.
NoHolder == "none"

VARIABLES
    torrentMap,          \* tc.torrentMap: id -> Torrent, for the ids cached
    recentlyActiveOnly,  \* tc.recentlyActiveOnly
    torrentMapLock,      \* the goroutine holding tc.torrentMapLock, or NoHolder
    pc,                  \* where each goroutine is in Collect
    arg,                 \* the argument of the goroutine's GetTorrents call
    response,            \* the response the goroutine is merging
    activeTorrents,      \* the goroutine's local activeTorrents
    outcome,             \* how the goroutine's last Collect ended
    sent,                \* the torrents whose metrics its last Collect sent on ch
    \* history, read by the properties only
    mapAtLock,           \* torrentMap when the current holder took the lock
    serialMap,           \* the responses applied whole, in lock order
    everMerged,          \* the ids of every record inserted so far
    liveIDs,             \* the ids inserted and not listed as removed since
    gotNonEmpty,         \* some fetch has returned a non-empty batch
    gotFullNonEmpty,     \* some unrestricted fetch has returned a non-empty batch
    mergedNonEmpty       \* some poll has merged a non-empty batch and unlocked

\* One scrape gathers from the three registered collectors (main.go 58-60).
\* The two session collectors keep no state of their own.
VARIABLES
    collecting,          \* the session collectors whose Collect is in progress
    fetched,             \* what each one's last fetch returned
    result,              \* how each session collector's last Collect ended
    ch                   \* the metrics each one's last Collect sent on its channel

scrape == <<collecting, fetched, result, ch>>

vars == <<torrentMap, recentlyActiveOnly, torrentMapLock, pc, arg, response,
          activeTorrents, outcome, sent, mapAtLock, serialMap, everMerged,
          liveIDs, gotNonEmpty, gotFullNonEmpty, mergedNonEmpty>>

\* ----------------------------------------------------------------- helpers

\* make(map[int]transmission.Torrent)
EmptyMap == [i \in {} |-> 0]

NoResponse == [Torrents |-> <<>>, RemovedTorrents |-> <<>>]

Range(s) == {s[i] : i \in DOMAIN s}

SeqsUpTo(S, n) == UNION {[1..k -> S] : k \in 0..n}

\* What a successful GetTorrents(recentlyActiveOnly) may return.  The daemon
\* reports removed ids only in reply to a recently-active query.
GetTorrentsResponses(restricted) ==
    [Torrents : SeqsUpTo(Torrent, MaxBatch),
     RemovedTorrents : IF restricted THEN SeqsUpTo(IDs, MaxRemoved) ELSE {<<>>}]

\* MapPut keeping the record already cached for the id (first write wins).
MapPutIfAbsent(m, t) ==
    IF t.ID \in DOMAIN m
    THEN m
    ELSE [i \in DOMAIN m \cup {t.ID} |-> IF i = t.ID THEN t ELSE m[i]]

\* tc.torrentMap[t.ID] = t
MapPut(m, t) == [i \in DOMAIN m \cup {t.ID} |-> IF i = t.ID THEN t ELSE m[i]]

\* delete(tc.torrentMap, id)
MapDelete(m, id) == [i \in DOMAIN m \ {id} |-> m[i]]

\* for _, t := range response.Torrents { tc.torrentMap[t.ID] = t }
RECURSIVE InsertAll(_, _)
InsertAll(m, ts) ==
    IF ts = <<>> THEN m ELSE InsertAll(MapPut(m, Head(ts)), Tail(ts))

\* for _, id := range response.RemovedTorrents { delete(tc.torrentMap, id) }
RECURSIVE DeleteAll(_, _)
DeleteAll(m, ids) ==
    IF ids = <<>> THEN m ELSE DeleteAll(MapDelete(m, Head(ids)), Tail(ids))

\* for _, t := range tc.torrentMap { activeTorrents = append(activeTorrents, t) }
\* Go ranges over a map in an unspecified order: every order is possible.
MapValuesInSomeOrder(m) ==
    {s \in [1..Cardinality(DOMAIN m) -> Range(m)] : Range(s) = Range(m)}

\* ------------------------------------------------------------------- state

\* NewTorrentCollector: an empty map, the zero value of the flag and the mutex.
Init ==
    /\ torrentMap = EmptyMap
    /\ recentlyActiveOnly = FALSE
    /\ torrentMapLock = NoHolder
    /\ pc = [p \in Procs |-> "idle"]
    /\ arg = [p \in Procs |-> FALSE]
    /\ response = [p \in Procs |-> NoResponse]
    /\ activeTorrents = [p \in Procs |-> <<>>]
    /\ outcome = [p \in Procs |-> "none"]
    /\ sent = [p \in Procs |-> <<>>]
    /\ mapAtLock = EmptyMap
    /\ serialMap = EmptyMap
    /\ everMerged = {}
    /\ liveIDs = {}
    /\ gotNonEmpty = FALSE
    /\ gotFullNonEmpty = FALSE
    /\ mergedNonEmpty = FALSE
    /\ collecting = {}
    /\ fetched = [c \in {"session", "stats"} |-> "nothing"]
    /\ result = [c \in {"session", "stats"} |-> "none"]
    /\ ch = [c \in {"session", "stats"} |-> <<>>]

history ==
    <<mapAtLock, serialMap, everMerged, liveIDs, gotNonEmpty, gotFullNonEmpty,
      mergedNonEmpty>>

\* ----------------------------------------------------------------- Collect

\* CallGetTorrents passing the negation of the flag.
CallGetTorrentsNegated(p) ==
    /\ pc[p] = "idle"
    /\ pc' = [pc EXCEPT ![p] = "fetch"]
    /\ arg' = [arg EXCEPT ![p] = ~recentlyActiveOnly]
    /\ outcome' = [outcome EXCEPT ![p] = "none"]
    /\ sent' = [sent EXCEPT ![p] = <<>>]
    /\ UNCHANGED <<torrentMap, recentlyActiveOnly, torrentMapLock, response,
                   activeTorrents, history,
                   scrape>>

\* CallGetTorrents with torrentMapLock taken at the top of Collect, before
\* the call.
CallGetTorrentsUnderLock(p) ==
    /\ pc[p] = "idle"
    /\ torrentMapLock = NoHolder
    /\ torrentMapLock' = p
    /\ pc' = [pc EXCEPT ![p] = "fetch"]
    /\ arg' = [arg EXCEPT ![p] = recentlyActiveOnly]
    /\ outcome' = [outcome EXCEPT ![p] = "none"]
    /\ sent' = [sent EXCEPT ![p] = <<>>]
    /\ UNCHANGED <<torrentMap, recentlyActiveOnly, response, activeTorrents,
                   history,
                   scrape>>

\* Line 142, the call: Collect reads tc.recentlyActiveOnly, without the lock,
\* and issues GetTorrents with it.
CallGetTorrents(p) ==
    /\ pc[p] = "idle"
    /\ pc' = [pc EXCEPT ![p] = "fetch"]
    /\ arg' = [arg EXCEPT ![p] = recentlyActiveOnly]
    /\ outcome' = [outcome EXCEPT ![p] = "none"]
    /\ sent' = [sent EXCEPT ![p] = <<>>]
    /\ UNCHANGED <<torrentMap, recentlyActiveOnly, torrentMapLock, response,
                   activeTorrents, history,
                   scrape>>

\* GetTorrentsFails dropping the cache on an error.
GetTorrentsFailsClearingCache(p) ==
    /\ pc[p] = "fetch"
    /\ pc' = [pc EXCEPT ![p] = "idle"]
    /\ outcome' = [outcome EXCEPT ![p] = "error"]
    /\ torrentMap' = EmptyMap
    /\ UNCHANGED <<recentlyActiveOnly, torrentMapLock, arg, response,
                   activeTorrents, sent, history,
                   scrape>>

\* GetTorrentsFails sending the metrics of the cached torrents on an error.
GetTorrentsFailsServingCache(p) ==
    /\ pc[p] = "fetch"
    /\ pc' = [pc EXCEPT ![p] = "idle"]
    /\ outcome' = [outcome EXCEPT ![p] = "error"]
    /\ \E s \in MapValuesInSomeOrder(torrentMap) : sent' = [sent EXCEPT ![p] = s]
    /\ UNCHANGED <<torrentMap, recentlyActiveOnly, torrentMapLock, arg, response,
                   activeTorrents, history,
                   scrape>>

\* Lines 142-146: GetTorrents returns an error; Collect logs it and returns.
GetTorrentsFails(p) ==
    /\ pc[p] = "fetch"
    /\ pc' = [pc EXCEPT ![p] = "idle"]
    /\ outcome' = [outcome EXCEPT ![p] = "error"]
    /\ UNCHANGED <<torrentMap, recentlyActiveOnly, torrentMapLock, arg, response,
                   activeTorrents, sent, history,
                   scrape>>

\* Line 142, the return: GetTorrents returns without error.  Nothing reads the
\* response before line 153, so its contents are drawn when the lock is taken.
GetTorrentsReturns(p) ==
    /\ pc[p] = "fetch"
    /\ pc' = [pc EXCEPT ![p] = "lock"]
    /\ UNCHANGED <<torrentMap, recentlyActiveOnly, torrentMapLock, arg, response,
                   activeTorrents, outcome, sent, history,
                   scrape>>

\* Acquire that does not wait for the holder to release.
AcquireWithoutWaiting(p) ==
    /\ torrentMapLock' = p

\* sync.Mutex.Lock: blocks until no goroutine holds the mutex.
Acquire(p) ==
    /\ torrentMapLock = NoHolder
    /\ torrentMapLock' = p

\* Release that leaves the mutex held.
ReleaseLeaked(p) ==
    /\ torrentMapLock' = torrentMapLock

\* sync.Mutex.Unlock
Release(p) ==
    /\ torrentMapLock' = NoHolder

\* Line 152: tc.torrentMapLock.Lock()
Lock(p) ==
    /\ pc[p] = "lock"
    /\ Acquire(p)
    /\ \E r \in GetTorrentsResponses(arg[p]) :
          /\ response' = [response EXCEPT ![p] = r]
          /\ serialMap' = DeleteAll(InsertAll(serialMap, r.Torrents),
                                    r.RemovedTorrents)
          /\ liveIDs' = (liveIDs \cup {t.ID : t \in Range(r.Torrents)})
                            \ Range(r.RemovedTorrents)
          /\ gotNonEmpty' = (gotNonEmpty \/ r.Torrents # <<>>)
          /\ gotFullNonEmpty' =
                (gotFullNonEmpty \/ (~arg[p] /\ r.Torrents # <<>>))
    /\ mapAtLock' = torrentMap
    /\ pc' = [pc EXCEPT ![p] = "insert"]
    /\ UNCHANGED <<torrentMap, recentlyActiveOnly, arg, activeTorrents, outcome,
                   sent, everMerged, mergedNonEmpty,
                   scrape>>

\* InsertTorrents building the map anew from the batch.
InsertTorrentsReplacingMap(p) ==
    /\ pc[p] = "insert"
    /\ torrentMap' = InsertAll(EmptyMap, response[p].Torrents)
    /\ everMerged' = everMerged \cup {t.ID : t \in Range(response[p].Torrents)}
    /\ pc' = [pc EXCEPT ![p] = "delete"]
    /\ UNCHANGED <<recentlyActiveOnly, torrentMapLock, arg, response,
                   activeTorrents, outcome, sent, mapAtLock, serialMap,
                   liveIDs, gotNonEmpty, gotFullNonEmpty, mergedNonEmpty,
                   scrape>>

\* Lines 153-155: the insert loop.
InsertTorrents(p) ==
    /\ pc[p] = "insert"
    /\ torrentMap' = InsertAll(torrentMap, response[p].Torrents)
    /\ everMerged' = everMerged \cup {t.ID : t \in Range(response[p].Torrents)}
    /\ pc' = [pc EXCEPT ![p] = "delete"]
    /\ UNCHANGED <<recentlyActiveOnly, torrentMapLock, arg, response,
                   activeTorrents, outcome, sent, mapAtLock, serialMap,
                   liveIDs, gotNonEmpty, gotFullNonEmpty, mergedNonEmpty,
                   scrape>>

\* DeleteRemoved ignoring the removed ids of the response.
DeleteRemovedIgnored(p) ==
    /\ pc[p] = "delete"
    /\ pc' = [pc EXCEPT ![p] = "snapshot"]
    /\ UNCHANGED <<torrentMap, recentlyActiveOnly, torrentMapLock, arg, response,
                   activeTorrents, outcome, sent, history,
                   scrape>>

\* Lines 156-158: the delete loop.
DeleteRemoved(p) ==
    /\ pc[p] = "delete"
    /\ torrentMap' = DeleteAll(torrentMap, response[p].RemovedTorrents)
    /\ pc' = [pc EXCEPT ![p] = "snapshot"]
    /\ UNCHANGED <<recentlyActiveOnly, torrentMapLock, arg, response,
                   activeTorrents, outcome, sent, history,
                   scrape>>

\* Snapshot taking the torrents of the response instead of the map's.
SnapshotOfResponse(p) ==
    /\ pc[p] = "snapshot"
    /\ activeTorrents' = [activeTorrents EXCEPT ![p] = response[p].Torrents]
    /\ pc' = [pc EXCEPT ![p] = "unlock"]
    /\ UNCHANGED <<torrentMap, recentlyActiveOnly, torrentMapLock, arg, response,
                   outcome, sent, history,
                   scrape>>

\* Lines 159-161: the copy of the map's values.
Snapshot(p) ==
    /\ pc[p] = "snapshot"
    /\ \E s \in MapValuesInSomeOrder(torrentMap) :
          activeTorrents' = [activeTorrents EXCEPT ![p] = s]
    /\ pc' = [pc EXCEPT ![p] = "unlock"]
    /\ UNCHANGED <<torrentMap, recentlyActiveOnly, torrentMapLock, arg, response,
                   outcome, sent, history,
                   scrape>>

\* Line 162: tc.torrentMapLock.Unlock().  The response is not used after it.
Unlock(p) ==
    /\ pc[p] = "unlock"
    /\ Release(p)
    /\ response' = [response EXCEPT ![p] = NoResponse]
    /\ mapAtLock' = EmptyMap
    /\ mergedNonEmpty' = (mergedNonEmpty \/ response[p].Torrents # <<>>)
    /\ pc' = [pc EXCEPT ![p] = "flag"]
    /\ UNCHANGED <<torrentMap, recentlyActiveOnly, arg, activeTorrents, outcome,
                   sent, serialMap, everMerged, liveIDs, gotNonEmpty,
                   gotFullNonEmpty,
                   scrape>>

\* SetRecentlyActiveOnly setting the flag after every successful fetch.
SetRecentlyActiveOnlyAlways(p) ==
    /\ pc[p] = "flag"
    /\ recentlyActiveOnly' = TRUE
    /\ pc' = [pc EXCEPT ![p] = "emit"]
    /\ UNCHANGED <<torrentMap, torrentMapLock, arg, response, activeTorrents,
                   outcome, sent, history,
                   scrape>>

\* SetRecentlyActiveOnly assigning the test to the flag.
SetRecentlyActiveOnlyAssigned(p) ==
    /\ pc[p] = "flag"
    /\ recentlyActiveOnly' = (Len(activeTorrents[p]) > 0)
    /\ pc' = [pc EXCEPT ![p] = "emit"]
    /\ UNCHANGED <<torrentMap, torrentMapLock, arg, response, activeTorrents,
                   outcome, sent, history,
                   scrape>>

\* SetRecentlyActiveOnly testing for more than one torrent.
SetRecentlyActiveOnlyOffByOne(p) ==
    /\ pc[p] = "flag"
    /\ recentlyActiveOnly' =
          IF Len(activeTorrents[p]) > 1 THEN TRUE ELSE recentlyActiveOnly
    /\ pc' = [pc EXCEPT ![p] = "emit"]
    /\ UNCHANGED <<torrentMap, torrentMapLock, arg, response, activeTorrents,
                   outcome, sent, history,
                   scrape>>

\* Lines 164-166: if len(activeTorrents) > 0 { tc.recentlyActiveOnly = true },
\* after the unlock.
SetRecentlyActiveOnly(p) ==
    /\ pc[p] = "flag"
    /\ recentlyActiveOnly' =
          IF Len(activeTorrents[p]) > 0 THEN TRUE ELSE recentlyActiveOnly
    /\ pc' = [pc EXCEPT ![p] = "emit"]
    /\ UNCHANGED <<torrentMap, torrentMapLock, arg, response, activeTorrents,
                   outcome, sent, history,
                   scrape>>

\* SendMetrics ranging over tc.torrentMap instead of the copy.
SendMetricsFromMap(p) ==
    /\ pc[p] = "emit"
    /\ \E s \in MapValuesInSomeOrder(torrentMap) : sent' = [sent EXCEPT ![p] = s]
    /\ outcome' = [outcome EXCEPT ![p] = "ok"]
    /\ activeTorrents' = [activeTorrents EXCEPT ![p] = <<>>]
    /\ arg' = [arg EXCEPT ![p] = FALSE]
    /\ pc' = [pc EXCEPT ![p] = "idle"]
    /\ UNCHANGED <<torrentMap, recentlyActiveOnly, torrentMapLock, response,
                   history,
                   scrape>>

\* Lines 168-249: the metrics of every torrent of activeTorrents are sent on
\* ch, and Collect returns.
SendMetrics(p) ==
    /\ pc[p] = "emit"
    /\ sent' = [sent EXCEPT ![p] = activeTorrents[p]]
    /\ outcome' = [outcome EXCEPT ![p] = "ok"]
    /\ activeTorrents' = [activeTorrents EXCEPT ![p] = <<>>]
    /\ arg' = [arg EXCEPT ![p] = FALSE]
    /\ pc' = [pc EXCEPT ![p] = "idle"]
    /\ UNCHANGED <<torrentMap, recentlyActiveOnly, torrentMapLock, response,
                   history,
                   scrape>>

Collect(p) ==
    \/ CallGetTorrents(p)
    \/ GetTorrentsFails(p)
    \/ GetTorrentsReturns(p)
    \/ Lock(p)
    \/ InsertTorrents(p)
    \/ DeleteRemoved(p)
    \/ Snapshot(p)
    \/ Unlock(p)
    \/ SetRecentlyActiveOnly(p)
    \/ SendMetrics(p)

\* Scrapes are served concurrently: any goroutine may take its next step.
Next == \E p \in Procs : Collect(p)

Spec == Init /\ [][Next]_vars

\* Scrapes served one after another: Collect is called only when no other call
\* is in progress.
SeqCallGetTorrents(p) ==
    /\ \A q \in Procs : pc[q] = "idle"
    /\ CallGetTorrents(p)

SeqNext ==
    \E p \in Procs :
        \/ SeqCallGetTorrents(p)
        \/ GetTorrentsFails(p)
        \/ GetTorrentsReturns(p)
        \/ Lock(p)
        \/ InsertTorrents(p)
        \/ DeleteRemoved(p)
        \/ Snapshot(p)
        \/ Unlock(p)
        \/ SetRecentlyActiveOnly(p)
        \/ SendMetrics(p)

SeqSpec == Init /\ [][SeqNext]_vars

\* ------------------------------------------------- the session collectors
\* The registry calls the Collect of each registered collector for a scrape;
\* SessionCollector and SessionStatsCollector fetch afresh, keep nothing
\* between calls and share no state with TorrentCollector.

SessionCollectors == {"session", "stats"}

\* Values of a scraped clock (time.Now().Unix()).
Clock == {1000, 1001}

\* Replies of GetSession.  The fields are those Collect reads.
Sessions ==
    { [AltSpeedDown |-> 50, AltSpeedUp |-> 10, AltSpeedEnabled |-> e,
       CacheSizeMB |-> 4, DownloadDirFreeSpace |-> 7,
       DownloadDir |-> "/d", IncompleteDir |-> "/i",
       DownloadQueueSize |-> 5, DownloadQueueEnabled |-> TRUE,
       SeedQueueSize |-> 3, SeedQueueEnabled |-> FALSE,
       PeerLimitGlobal |-> 200, PeerLimitPerTorrent |-> 50,
       SeedRatioLimit |-> 2, SeedRatioLimited |-> e,
       SpeedLimitDown |-> 100, SpeedLimitDownEnabled |-> FALSE,
       SpeedLimitUp |-> 20, SpeedLimitUpEnabled |-> TRUE,
       Version |-> "2.94"] : e \in BOOLEAN }

\* Replies of GetSessionStats.
SessionStateStats(n) ==
    [DownloadedBytes |-> 10 * n, UploadedBytes |-> 20 * n, FilesAdded |-> n,
     SecondsActive |-> 30 * n, SessionCount |-> n]

SessionStats ==
    { [DownloadSpeed |-> 8, UploadSpeed |-> 9, TorrentCount |-> 2,
       ActiveTorrentCount |-> a, PausedTorrentCount |-> 2 - a,
       CurrentStats |-> SessionStateStats(1),
       CumulativeStats |-> SessionStateStats(3)] : a \in {0, 1} }

NumericBool(v) == IF v THEN "1" ELSE "0"

\* strconv.Itoa on a non-negative int.
RECURSIVE Itoa(_)
Itoa(n) ==
    LET digit == <<"0", "1", "2", "3", "4", "5", "6", "7", "8", "9">>[(n % 10) + 1]
    IN  IF n < 10 THEN digit ELSE Itoa(n \div 10) \o digit

\* prometheus.MustNewConstMetric(desc, GaugeValue, value, labels...)
Metric(desc, value, labels) ==
    [desc |-> desc, value |-> value, labels |-> labels]

\* The descriptors each Describe sends.
TorrentDescribe ==
    {"Status", "Added", "Finished", "Done", "Ratio", "Download", "Upload",
     "UploadedEver", "DownloadedEver", "PeersConnected", "PeersGettingFromUs",
     "PeersSendingToUs"}

SessionDescribe ==
    {"AltSpeedDown", "AltSpeedUp", "CacheSize", "FreeSpace", "QueueDown",
     "QueueUp", "PeerLimitGlobal", "PeerLimitTorrent", "SeedRatioLimit",
     "SpeedLimitDown", "SpeedLimitUp", "Version"}

SessionStatsDescribe ==
    {"DownloadSpeed", "UploadSpeed", "TorrentsTotal", "TorrentsActive",
     "TorrentsPaused"}

\* The metrics TorrentCollector.Collect sends for one torrent, in order.  All
\* twelve carry the labels (id, name); the record's other fields, which Name
\* stands for, give the values.
TorrentSeries ==
    <<"Status", "Added", "Finished", "Done", "Ratio", "Download", "Upload",
      "UploadedEver", "DownloadedEver", "PeersConnected", "PeersGettingFromUs",
      "PeersSendingToUs">>

RECURSIVE TorrentMetrics(_)
TorrentMetrics(ts) ==
    IF ts = <<>> THEN <<>>
    ELSE LET t  == Head(ts)
             id == Itoa(t.ID)
         IN  [i \in 1..Len(TorrentSeries) |->
                 Metric(TorrentSeries[i], t.Name, <<id, t.Name>>)]
             \o TorrentMetrics(Tail(ts))

\* The metrics SessionCollector.Collect sends for one reply, in order.
SessionMetrics(session) ==
    << Metric("AltSpeedDown", session.AltSpeedDown,
              <<NumericBool(session.AltSpeedEnabled)>>),
       Metric("AltSpeedUp", session.AltSpeedUp,
              <<NumericBool(session.AltSpeedEnabled)>>),
       Metric("CacheSize", session.CacheSizeMB * 1024 * 1024, <<>>),
       Metric("FreeSpace", session.DownloadDirFreeSpace,
              <<session.DownloadDir, session.IncompleteDir>>),
       Metric("QueueDown", session.DownloadQueueSize,
              <<NumericBool(session.DownloadQueueEnabled)>>),
       Metric("QueueUp", session.SeedQueueSize,
              <<NumericBool(session.SeedQueueEnabled)>>),
       Metric("PeerLimitGlobal", session.PeerLimitGlobal, <<>>),
       Metric("PeerLimitTorrent", session.PeerLimitPerTorrent, <<>>),
       Metric("SeedRatioLimit", session.SeedRatioLimit,
              <<NumericBool(session.SeedRatioLimited)>>),
       Metric("SpeedLimitDown", session.SpeedLimitDown,
              <<NumericBool(session.SpeedLimitDownEnabled)>>),
       Metric("SpeedLimitUp", session.SpeedLimitUp,
              <<NumericBool(session.SpeedLimitUpEnabled)>>),
       Metric("Version", 1, <<session.Version>>) >>

\* One pass of the loop over types in SessionStatsCollector.Collect.
StateStatsMetrics(t, stateStats, now) ==
    << Metric("Downloaded", stateStats.DownloadedBytes, <<t>>),
       Metric("Uploaded", stateStats.UploadedBytes, <<t>>),
       Metric("FilesAdded", stateStats.FilesAdded, <<t>>),
       Metric("ActiveTime", now - stateStats.SecondsActive, <<t>>),
       Metric("SessionCount", stateStats.SessionCount, <<t>>) >>

\* The metrics SessionStatsCollector.Collect sends for one reply, the clock
\* reading now1 in the first pass of the loop and now2 in the second.
SessionStatsMetrics(stats, now1, now2) ==
    << Metric("DownloadSpeed", stats.DownloadSpeed, <<>>),
       Metric("UploadSpeed", stats.UploadSpeed, <<>>),
       Metric("TorrentsTotal", stats.TorrentCount, <<>>),
       Metric("TorrentsActive", stats.ActiveTorrentCount, <<>>),
       Metric("TorrentsPaused", stats.PausedTorrentCount, <<>>) >>
    \o StateStatsMetrics("current", stats.CurrentStats, now1)
    \o StateStatsMetrics("cumulative", stats.CumulativeStats, now2)

\* The registry calls a session collector's Collect.
CallCollect(c) ==
    /\ c \notin collecting
    /\ collecting' = collecting \cup {c}
    /\ fetched' = [fetched EXCEPT ![c] = "nothing"]
    /\ result' = [result EXCEPT ![c] = "none"]
    /\ ch' = [ch EXCEPT ![c] = <<>>]
    /\ UNCHANGED vars

\* GetSession returns an error: Collect logs and returns.
GetSessionFails ==
    /\ "session" \in collecting
    /\ collecting' = collecting \ {"session"}
    /\ result' = [result EXCEPT !["session"] = "error"]
    /\ UNCHANGED <<fetched, ch>>
    /\ UNCHANGED vars

\* A fault: the session series are dropped when a torrent fetch has failed.
SessionCollectSendsUnlessTorrentsFailed ==
    /\ "session" \in collecting
    /\ \E session \in Sessions :
          /\ fetched' = [fetched EXCEPT !["session"] = session]
          /\ ch' = [ch EXCEPT !["session"] =
                       IF \E p \in Procs : outcome[p] = "error"
                       THEN <<>> ELSE SessionMetrics(session)]
    /\ collecting' = collecting \ {"session"}
    /\ result' = [result EXCEPT !["session"] = "ok"]
    /\ UNCHANGED vars

\* GetSession returns a session: Collect sends its twelve metrics.
SessionCollectSends ==
    /\ "session" \in collecting
    /\ \E session \in Sessions :
          /\ fetched' = [fetched EXCEPT !["session"] = session]
          /\ ch' = [ch EXCEPT !["session"] = SessionMetrics(session)]
    /\ collecting' = collecting \ {"session"}
    /\ result' = [result EXCEPT !["session"] = "ok"]
    /\ UNCHANGED vars

\* GetSessionStats returns an error: Collect logs and returns.
GetSessionStatsFails ==
    /\ "stats" \in collecting
    /\ collecting' = collecting \ {"stats"}
    /\ result' = [result EXCEPT !["stats"] = "error"]
    /\ UNCHANGED <<fetched, ch>>
    /\ UNCHANGED vars

\* GetSessionStats returns statistics: Collect sends the five totals and, for
\* each type, five more metrics.
SessionStatsCollectSends ==
    /\ "stats" \in collecting
    /\ \E stats \in SessionStats, now1 \in Clock :
          \E now2 \in {n \in Clock : n >= now1} :
              /\ fetched' = [fetched EXCEPT !["stats"] = stats]
              /\ ch' = [ch EXCEPT !["stats"] =
                           SessionStatsMetrics(stats, now1, now2)]
    /\ collecting' = collecting \ {"stats"}
    /\ result' = [result EXCEPT !["stats"] = "ok"]
    /\ UNCHANGED vars

\* Scrapes as promhttp.Handler serves them: the three collectors run
\* concurrently, each at its own pace.  One TorrentCollector.Collect at a time
\* is enough here.
ScrapeNext ==
    \/ Collect("g1")
    \/ \E c \in SessionCollectors : CallCollect(c)
    \/ GetSessionFails
    \/ SessionCollectSends
    \/ GetSessionStatsFails
    \/ SessionStatsCollectSends

ScrapeSpec == Init /\ [][ScrapeNext]_<<vars, scrape>>

\* Fair scheduling: a goroutine that can run its next step inside the critical
\* section eventually runs it (the Go scheduler), and a goroutine blocked in
\* Lock() eventually gets the mutex if it is released again and again
\* (sync.Mutex hands over to a starving waiter).  Nothing is assumed of the
\* fetch or of the consumer of ch.
Fairness ==
    \A p \in Procs :
        /\ SF_vars(Lock(p))
        /\ WF_vars(InsertTorrents(p))
        /\ WF_vars(DeleteRemoved(p))
        /\ WF_vars(Snapshot(p))
        /\ WF_vars(Unlock(p))

FairSpec == Spec /\ Fairness

\* -------------------------------------------------------------- properties

\* The ids of the records of a batch.
BatchIDs(ts) == {t.ID : t \in Range(ts)}

\* The last record of batch ts whose id is i.
LastRecord(ts, i) ==
    ts[CHOOSE k \in DOMAIN ts :
          /\ ts[k].ID = i
          /\ \A j \in DOMAIN ts : ts[j].ID = i => j <= k]

\* The goroutine has run both loops of its merge and still holds the lock.
Merged(p) == pc[p] \in {"snapshot", "unlock"}

\* C1: a Collect whose GetTorrents fails changes neither torrentMap nor
\* recentlyActiveOnly: neither its call nor its failing return writes to them.
C1_AtomicFailure ==
    [][\A p \in Procs :
          (\/ pc[p] = "idle" /\ pc'[p] = "fetch"
           \/ pc[p] = "fetch" /\ pc'[p] = "idle")
          => /\ torrentMap' = torrentMap
             /\ recentlyActiveOnly' = recentlyActiveOnly]_vars

\* A Collect has failed on a cache that holds both ids and is in restricted
\* mode.
C1_Witness ==
    \E p \in Procs :
        /\ pc[p] = "idle"
        /\ outcome[p] = "error"
        /\ DOMAIN torrentMap = IDs
        /\ recentlyActiveOnly

OneEntryPerID(s) ==
    \A j, k \in DOMAIN s : s[j].ID = s[k].ID => j = k

C5_ModeIsActivationGated ==
    \A p \in Procs :
        pc[p] \in {"fetch", "lock"} => (arg[p] = gotNonEmpty)

\* A poll issues a restricted fetch although the cache is empty again and the
\* other goroutine's last poll failed.
C5_Witness ==
    \E p, q \in Procs :
        /\ pc[p] = "fetch"
        /\ arg[p]
        /\ torrentMap = EmptyMap
        /\ outcome[q] = "error"

\* C6: under any interleaving a goroutine's GetTorrents call is restricted only
\* if an unrestricted fetch has returned a non-empty batch before.
C6_NoPrematureRestriction ==
    \A p \in Procs :
        (pc[p] # "idle" /\ arg[p]) => gotFullNonEmpty

\* A restricted fetch is in progress while the other goroutine, which issued
\* an unrestricted one, is still merging.
C6_Witness ==
    \E p, q \in Procs :
        /\ pc[p] = "fetch"
        /\ arg[p]
        /\ pc[q] = "insert"
        /\ ~arg[q]

\* C7: recentlyActiveOnly starts false, and no step takes it from true to
\* false.
C7_FlagIsOneWay ==
    /\ ~recentlyActiveOnly
    /\ [][recentlyActiveOnly => recentlyActiveOnly']_vars

\* The flag is still set after a poll that failed and a poll that published
\* nothing from a cache emptied by removals.
C7_Witness ==
    \E p, q \in Procs :
        /\ recentlyActiveOnly
        /\ torrentMap = EmptyMap
        /\ pc[p] = "idle" /\ outcome[p] = "ok" /\ sent[p] = <<>>
        /\ pc[q] = "idle" /\ outcome[q] = "error"

\* C8: a goroutine whose GetTorrents call is in progress does not hold
\* torrentMapLock, and when every other goroutine is in its GetTorrents call a
\* goroutine waiting for the lock finds it free.
C8_FetchOutsideLock ==
    \A p \in Procs :
        /\ pc[p] = "fetch" => torrentMapLock # p
        /\ (pc[p] = "lock" /\ \A q \in Procs \ {p} : pc[q] = "fetch")
              => torrentMapLock = NoHolder

\* One goroutine has merged and taken its snapshot while the other's fetch is
\* still in progress.
C8_Witness ==
    \E p, q \in Procs :
        /\ pc[p] = "fetch"
        /\ pc[q] = "unlock"
        /\ torrentMapLock = q
        /\ activeTorrents[q] # <<>>

C10_SharedStateOnlyUnderLock ==
    \A p \in Procs :
        pc[p] \in {"insert", "delete", "snapshot", "flag"} => torrentMapLock = p

C13_StableOrder ==
    \A p, q \in Procs :
        (/\ outcome[p] = "ok"
         /\ outcome[q] = "ok"
         /\ Range(sent[p]) = Range(sent[q]))
        => sent[p] = sent[q]

\* C14: the copy a poll holds when it releases the lock is the map's contents,
\* one entry per id; no step of any goroutine changes that copy until the poll
\* has sent it; and what the poll sends is that copy, torrentMap being left as
\* it is.
C14_SnapshotIsolation ==
    [][\A p \in Procs :
          /\ (pc[p] = "unlock" /\ pc'[p] = "flag")
                => /\ Range(activeTorrents'[p]) = Range(torrentMap)
                   /\ OneEntryPerID(activeTorrents'[p])
          /\ (pc[p] \in {"flag", "emit"} /\ pc'[p] \in {"flag", "emit"})
                => activeTorrents'[p] = activeTorrents[p]
          /\ (pc[p] = "emit" /\ pc'[p] = "idle")
                => /\ sent'[p] = activeTorrents[p]
                   /\ torrentMap' = torrentMap]_vars

\* A poll is about to send a copy that differs from torrentMap, another poll
\* having merged since the copy was taken.
C14_Witness ==
    \E p \in Procs :
        /\ pc[p] = "emit"
        /\ activeTorrents[p] # <<>>
        /\ torrentMapLock = NoHolder
        /\ Range(activeTorrents[p]) # Range(torrentMap)

Quiescent == \A p \in Procs : pc[p] = "idle"

\* C17: whenever no Collect call is in progress, recentlyActiveOnly = false
\* implies that torrentMap is empty.
C17_FullModeOnlyWhileEmpty ==
    (Quiescent /\ ~recentlyActiveOnly) => torrentMap = EmptyMap

\* No call is in progress, both goroutines have completed a successful poll
\* and the collector is still in full-fetch mode.
C17_Witness ==
    /\ Quiescent
    /\ ~recentlyActiveOnly
    /\ \A p \in Procs : outcome[p] = "ok"

\* C16 as stated: once some poll has merged a non-empty batch and released
\* the lock, every Collect call that starts issues GetTorrents(true).
C16_ModeSwitchVisibleToLaterPolls ==
    [][\A p \in Procs :
          (mergedNonEmpty /\ pc[p] = "idle" /\ pc'[p] = "fetch") => arg'[p]]_vars

\* The goroutine is in its merge step, between Lock() and Unlock().
InMerge(p) == pc[p] \in {"insert", "delete", "snapshot", "unlock"}

\* C18: a goroutine holds torrentMapLock only in its merge step, so not when
\* Collect has returned nor while it sends metrics; whenever no goroutine is
\* in its merge step the lock is free; and under fair scheduling every
\* goroutine whose fetch has returned gets the lock, merges and unlocks.
C18_NoLeakedLock ==
    /\ [](\A p \in Procs : ~InMerge(p) => torrentMapLock # p)
    /\ []((\A p \in Procs : ~InMerge(p)) => torrentMapLock = NoHolder)
    /\ \A p \in Procs : (pc[p] = "lock") ~> (pc[p] = "flag")

\* A goroutine whose fetch has returned waits for the lock while the other
\* goroutine holds it and is merging a non-empty batch.
C18_Witness ==
    \E p, q \in Procs :
        /\ pc[p] = "lock"
        /\ pc[q] = "insert"
        /\ torrentMapLock = q
        /\ response[q].Torrents # <<>>
\* C12: a Collect whose GetTorrents failed sent no torrent metric, and the
\* session collectors are not affected by it: whatever happened to the torrent
\* fetch, a SessionCollector.Collect whose fetch succeeded sent exactly the
\* twelve metrics of its own reply, a SessionStatsCollector.Collect whose
\* fetch succeeded sent exactly the fifteen metrics of its own reply, and one
\* whose own fetch failed sent nothing.
C12_FailOpen ==
    /\ \A p \in Procs :
          outcome[p] = "error" => TorrentMetrics(sent[p]) = <<>>
    /\ result["session"] = "ok" =>
          /\ fetched["session"] \in Sessions
          /\ ch["session"] = SessionMetrics(fetched["session"])
          /\ Len(ch["session"]) = 12
    /\ result["stats"] = "ok" =>
          /\ fetched["stats"] \in SessionStats
          /\ \E now1, now2 \in Clock :
                ch["stats"] = SessionStatsMetrics(fetched["stats"], now1, now2)
          /\ Len(ch["stats"]) = 15
    /\ \A c \in SessionCollectors : result[c] = "error" => ch[c] = <<>>

\* The torrent fetch of a scrape failed while both session collectors sent
\* their metrics.
C12_Witness ==
    /\ pc["g1"] = "idle" /\ outcome["g1"] = "error" /\ sent["g1"] = <<>>
    /\ torrentMap # EmptyMap
    /\ collecting = {}
    /\ result["session"] = "ok" /\ Len(ch["session"]) = 12
    /\ result["stats"] = "ok" /\ Len(ch["stats"]) = 15

\* C19: Describe covers Collect: every metric a collector's Collect sends is
\* under a descriptor that the collector's Describe sends.
C19_DescribeCoversCollect ==
    /\ \A p \in Procs :
          {m.desc : m \in Range(TorrentMetrics(sent[p]))} \subseteq TorrentDescribe
    /\ {m.desc : m \in Range(ch["session"])} \subseteq SessionDescribe
    /\ {m.desc : m \in Range(ch["stats"])} \subseteq SessionStatsDescribe

====
